---- MODULE Spec2Model ----
(***************************************************************************)
(* A model of the bot-detection engine of cside-assessment.                *)
(*                                                                         *)
(*   - the Risk Summarizer (summarize), in its two engine variants:        *)
(*       src/unnamed/part_000:283-289        ratio thresholds              *)
(*       src/src/app/lib/botDetector.ts:250-257   raw-score thresholds     *)
(*   - the Activity Probe (startActivityProbe), in its two variants:       *)
(*       src/unnamed/part_000:210-259        four signals                  *)
(*       src/src/app/lib/botDetector.ts:153-222   two signals              *)
(*   - the Scenario Harness (src/headlessBot.js).                          *)
(*                                                                         *)
(* Numbers.  Weights, scores and maxima are integers in thousandths        *)
(* (1.5 is 1500).  Clock readings and gaps are integers in milliseconds.   *)
(* Comparisons of quotients (score/max, the variance, the entropy) are     *)
(* cross-multiplied so that they are decided in integer arithmetic.        *)
(***************************************************************************)
EXTENDS Integers, Sequences, FiniteSets

VARIABLES
    \* ---- Risk Summarizer ----
    results,        \* the Signal collection handed to summarize
    summary,        \* the Summary returned, or NoSummary before the call
    \* ---- Activity Probe ----
    variant,        \* which startActivityProbe runs: "four" or "two"
    driver,         \* the event source: "free", "repeat" or "ramp"
    ppc,            \* "idle" | "listening" | "done"
    run,            \* number of startActivityProbe invocations so far
    listeners,      \* handlers registered on window: <<run, event type>>
    now,            \* performance.now(), in ms
    moves, clicks, keys, scrolls,
    lastPos, tinyMoves,
    intervals, lastT,
    probeSignals,   \* the SignalResult[] the promise resolved with
    evTimes,        \* history: clock reading of each qualifying event of this run
    liveAtCompute,  \* history: handlers of this run registered when the statistics were computed
    dispatched,     \* number of events dispatched so far
    prevSample,     \* history: position of the last pointermove handled, <<>> before the first
    tinyExpected,   \* history: pointermoves handled within 1px of the one before
    \* ---- Scenario Harness ----
    hpc,            \* the step the harness is about to take
    first,          \* index in the script's scenario list of the first scenario run
    scen,           \* number of the scenario being run, 1..NScenarios
    browsers,       \* scenario numbers whose browser instance is open
    diag,           \* what grabDiagnostics returned for the current scenario
    grabbed,        \* history: what that call of grabDiagnostics met on the page
    hresults,       \* the `results' array of the main function
    persisted,      \* number of times the output document was written
    steps,          \* history: the steps taken for the current scenario
    fatal,          \* history: the step whose rejection ended the harness, or "none"
    threw,          \* history: the scenarios whose scripted action threw
    \* ---- Static detection pass ----
    registry,       \* which runStaticDetections runs: "four" (19 detectors) or "two" (12)
    snap,           \* the sensor values the detectors read
    faulted,        \* the sensor whose value departs from the ordinary browser's
    calls,          \* number of runStaticDetections invocations so far
    skews,          \* history: what the clock did during each invocation
    passes,         \* what each invocation returned: its Signals, or Thrown
    \* ---- Diagnostic snapshot as JSON ----
    jpc,            \* "page" | "rendered" | "grabbed" | "written" | "read"
    jsnap,          \* history: the { summary, signals } object the page serialised
    jtext,          \* the JSON text last produced by JSON.stringify
    jvalue,         \* the value last produced by JSON.parse
    \* ---- Merged Signal collection of one detection pass ----
    composer,       \* who merges: "runAll" (runAllDetections) or "page" (the Page component)
    merged,         \* the merged collection, NoMerge before the pass
    \* ---- The page's summary effect ----
    deviceFactor,   \* the factor the page scaled the weights by, in thousandths
    \* ---- runAllDetections on the window ----
    wpc,            \* "idle" | "probe" (probe window open) | "await" (behavioural timers) | "settled"
    invocation,     \* number of runAllDetections calls started
    windowListeners,\* listeners registered on window: <<invocation, event type>>
    closures,       \* lostFocus / resized / pinch of each invocation's detectors
    timers,         \* behavioural detectors of the call whose timer has not fired
    wStatic,        \* staticResults of the call in progress
    wDynamic,       \* dynamicResults of the call in progress
    wBehavioral,    \* behavioural Signals returned so far in the call in progress
    returned,       \* what the last settled call resolved with, NoMerge before
    listenersBefore,\* history: number of window listeners when the last call began
    windowEvents    \* number of blur / resize / gesturestart events dispatched

sumVars   == <<results, summary>>
probeVars == <<variant, driver, ppc, run, listeners, now, moves, clicks, keys, scrolls,
               lastPos, tinyMoves, intervals, lastT, probeSignals, evTimes,
               liveAtCompute, dispatched, prevSample, tinyExpected>>
harnessVars == <<hpc, first, scen, browsers, diag, grabbed, hresults, persisted, steps, fatal, threw>>
staticVars == <<registry, snap, faulted, calls, skews, passes>>
jsonVars  == <<jpc, jsnap, jtext, jvalue>>
mergeVars == <<composer, merged>>
pageVars  == <<deviceFactor>>
windowVars == <<wpc, invocation, windowListeners, closures, timers, wStatic, wDynamic,
                wBehavioral, returned, listenersBefore, windowEvents>>
vars      == <<sumVars, probeVars, harnessVars, staticVars, jsonVars, mergeVars, pageVars,
               windowVars>>

\* What an action of one component leaves alone.
notSum     == <<probeVars, harnessVars, staticVars, jsonVars, mergeVars, pageVars, windowVars>>
notProbe   == <<sumVars, harnessVars, staticVars, jsonVars, mergeVars, pageVars, windowVars>>
notHarness == <<sumVars, probeVars, staticVars, jsonVars, mergeVars, pageVars, windowVars>>
notStatic  == <<sumVars, probeVars, harnessVars, jsonVars, mergeVars, pageVars, windowVars>>
notJson    == <<probeVars, harnessVars, staticVars, mergeVars, pageVars, windowVars>>
notMerge   == <<sumVars, probeVars, harnessVars, staticVars, jsonVars, pageVars, windowVars>>
notPage    == <<probeVars, harnessVars, staticVars, jsonVars, mergeVars, windowVars>>
notWindow  == <<sumVars, probeVars, harnessVars, staticVars, jsonVars, mergeVars, pageVars>>

-----------------------------------------------------------------------------
(* Helpers on sequences of integers.                                        *)

RECURSIVE SumSeq(_)
SumSeq(s) == IF s = <<>> THEN 0 ELSE s[1] + SumSeq(Tail(s))

Max2(a, b) == IF a >= b THEN a ELSE b

-----------------------------------------------------------------------------
(* Risk Summarizer                                                          *)

\* Largest Signal collection summarised.
MaxSignals == 3

\* Weights drawn for the collection, in thousandths: 0 (detectTouchMismatch's
\* non-suspicious weight), 0.35 and 0.85 (0.5 and 1 scaled by the page's device
\* factors), 0.5, 1.5 and 3.
Weights == {0, 350, 500, 850, 1500, 3000}

NoSummary == [engine |-> "none", score |-> 0, max |-> 0, level |-> "none"]

\* signal(id, name, suspicious, weight, details): summarize reads only
\* suspicious and weight.
signal(id, suspicious, weight) == [id |-> id, suspicious |-> suspicious, weight |-> weight]

\* Mutant of scoreOf: the suspicious flag is ignored.
RECURSIVE scoreOf_ignoreFlag(_)
scoreOf_ignoreFlag(rs) ==
    IF rs = <<>> THEN 0 ELSE rs[1].weight + scoreOf_ignoreFlag(Tail(rs))

\* results.reduce((a,s) => a + (s.suspicious ? s.weight : 0), 0)
RECURSIVE scoreOf(_)
scoreOf(rs) ==
    IF rs = <<>> THEN 0
    ELSE (IF rs[1].suspicious THEN rs[1].weight ELSE 0) + scoreOf(Tail(rs))

\* Mutant of maxOf: the weights of the suspicious Signals are left out.
RECURSIVE maxOf_skipSuspicious(_)
maxOf_skipSuspicious(rs) ==
    IF rs = <<>> THEN 0
    ELSE (IF rs[1].suspicious THEN 0 ELSE rs[1].weight) + maxOf_skipSuspicious(Tail(rs))

\* results.reduce((a,s) => a + s.weight, 0)
RECURSIVE maxOf(_)
maxOf(rs) == IF rs = <<>> THEN 0 ELSE rs[1].weight + maxOf(Tail(rs))

\* +x.toFixed(1): x to the nearest tenth.  A value half-way between two tenths
\* (x.x5) goes up when its double is exact or above the decimal and down when its
\* double is below it (0.25 -> 0.3, 0.35 -> 0.3, 0.45 -> 0.5); `up' is that
\* direction.
toFixed1(x, up) ==
    LET q == x \div 100
        r == x % 100
    IN  IF r > 50 \/ (r = 50 /\ up) THEN (q + 1) * 100 ELSE q * 100

\* ratio>=0.7 ? "high" : ratio>=0.4 ? "medium" : "low", ratio = max>0 ? score/max : 0
ratioLevel(score, max) ==
    IF max > 0 /\ 10 * score >= 7 * max THEN "high"
    ELSE IF max > 0 /\ 10 * score >= 4 * max THEN "medium"
    ELSE "low"

\* if (score >= 8) level = "high"; else if (score >= 4) level = "medium"
rawLevel(score) ==
    IF score >= 8000 THEN "high"
    ELSE IF score >= 4000 THEN "medium"
    ELSE "low"

\* summarize of the four-signal engine (ratio thresholds).
summarize(rs, upS, upM) ==
    LET score == scoreOf(rs)
        max   == maxOf(rs)
    IN  [engine |-> "ratio",
         score  |-> toFixed1(score, upS),
         max    |-> toFixed1(max, upM),
         level  |-> ratioLevel(score, max)]

\* summarize of the two-signal engine (raw-score thresholds).
summarizeLib(rs, upS, upM) ==
    LET score == scoreOf(rs)
        max   == maxOf(rs)
    IN  [engine |-> "raw",
         score  |-> toFixed1(score, upS),
         max    |-> toFixed1(max, upM),
         level  |-> rawLevel(score)]

\* The directions in which the two toFixed(1) calls break a tie: equal sums are
\* the same double and round alike.
TieDirs(rs) ==
    {d \in BOOLEAN \X BOOLEAN : scoreOf(rs) = maxOf(rs) => d[1] = d[2]}

\* The caller builds the collection one Signal at a time.
AddSignal ==
    /\ summary = NoSummary
    /\ Len(results) < MaxSignals
    /\ \E s \in BOOLEAN, w \in Weights :
          results' = Append(results, signal(Len(results) + 1, s, w))
    /\ UNCHANGED <<summary, notSum>>

SummarizeRatio ==
    /\ summary = NoSummary
    /\ \E d \in TieDirs(results) : summary' = summarize(results, d[1], d[2])
    /\ UNCHANGED <<results, notSum>>

SummarizeLib ==
    /\ summary = NoSummary
    /\ \E d \in TieDirs(results) : summary' = summarizeLib(results, d[1], d[2])
    /\ UNCHANGED <<results, notSum>>

SumInit == results = <<>> /\ summary = NoSummary

SumNext == AddSignal \/ SummarizeRatio \/ SummarizeLib

-----------------------------------------------------------------------------
(* Activity Probe: the statistics computed at window close                   *)

RECURSIVE Pow2(_)
Pow2(n) == IF n = 0 THEN 1 ELSE 2 * Pow2(n - 1)

RECURSIVE floorLog2(_)
floorLog2(x) == IF x < 2 THEN 0 ELSE 1 + floorLog2(x \div 2)

\* The fractional bits of log2 of a mantissa m in [1, 2), m held with 14
\* fractional bits: square, and emit a 1 whenever the square reaches 2.
RECURSIVE log2Frac(_, _)
log2Frac(m, k) ==
    IF k = 0 THEN 0
    ELSE LET sq == (m * m) \div 16384
         IN  IF sq >= 32768 THEN Pow2(k - 1) + log2Frac(sq \div 2, k - 1)
             ELSE log2Frac(sq, k - 1)

\* Math.log2(x) for an integer x >= 1, in 256ths, truncated: exact on the
\* powers of two, and log2Fix(2 * x) = 256 + log2Fix(x).
log2Fix(x) ==
    LET e == floorLog2(x)
    IN  e * 256 + log2Frac((x * 16384) \div Pow2(e), 8)

\* const sum = intervals.reduce((a,b)=>a+b,0)
sumOf(ivs) == SumSeq(ivs)

\* intervals.reduce((acc,v)=>acc+(v-mean)**2,0) with mean = sum/n, times n*n.
sqDevScaled(ivs) ==
    LET n == Len(ivs)
        S == sumOf(ivs)
    IN  SumSeq([i \in 1..n |-> (n * ivs[i] - S) * (n * ivs[i] - S)])

\* variance < c, where variance = intervals.length>1 ? sqDev/(n-1) : 0.
varianceLt(ivs, c) ==
    LET n == Len(ivs)
    IN  IF n > 1 THEN sqDevScaled(ivs) < c * n * n * (n - 1) ELSE 0 < c

\* entropy * sum, in 256ths: entropy = -sum_i p_i*log2(p_i || 1), p_i = i/(sum||1),
\* so entropy * sum = sum_i g_i * (log2(sum) - log2(g_i)) over the non-zero gaps.
entropyScaled(ivs) ==
    LET S == sumOf(ivs)
    IN  IF S = 0 THEN 0
        ELSE SumSeq([i \in 1..Len(ivs) |->
                 IF ivs[i] = 0 THEN 0 ELSE ivs[i] * (log2Fix(S) - log2Fix(ivs[i]))])

\* entropy < c.  With no interval, or a zero sum, every term is 0 and entropy is 0.
entropyLt(ivs, c) ==
    LET S == sumOf(ivs)
    IN  IF S = 0 THEN 0 < c ELSE entropyScaled(ivs) < c * 256 * S

\* const noInput = moves+clicks+keys+scrolls === 0
noInput(mv, cl, ks, sc) == mv + cl + ks + sc = 0

\* Mutant of tooRegular: either statistic alone is enough.
tooRegular_either(ivs) == varianceLt(ivs, 5) \/ entropyLt(ivs, 2)

\* const tooRegular = variance<5 && entropy<2
tooRegular(ivs) == varianceLt(ivs, 5) /\ entropyLt(ivs, 2)

\* Mutant of impossibleSpeed: only the last gap is looked at.
impossibleSpeed_lastOnly(ivs) == ivs # <<>> /\ ivs[Len(ivs)] < 8

\* const impossibleSpeed = intervals.some(i=>i<8)
impossibleSpeed(ivs) == \E i \in 1..Len(ivs) : ivs[i] < 8

\* const excessiveTinyMoves = tinyMoves>Math.max(10,Math.floor(moves*0.5))
excessiveTinyMoves(tm, mv) == tm > Max2(10, mv \div 2)

\* Mutant of veryRegular: the variance test is dropped.
veryRegular_noVariance(ivs) == Len(ivs) >= 5

\* const veryRegular = intervals.length >= 5 && varianceAccumulator < 5
veryRegular(ivs) == Len(ivs) >= 5 /\ varianceLt(ivs, 5)

\* The SignalResult[] of the four-signal probe.
fourSignals(mv, cl, ks, sc, ivs, tm) ==
    << signal("probe-no-input", noInput(mv, cl, ks, sc), 3000),
       signal("probe-regularity", tooRegular(ivs), 1500),
       signal("probe-impossible-speed", impossibleSpeed(ivs), 2000),
       signal("probe-jitter", excessiveTinyMoves(tm, mv), 1500) >>

\* The SignalResult[] of the two-signal probe.
twoSignals(mv, cl, ks, sc, ivs) ==
    << signal("probe-no-input", noInput(mv, cl, ks, sc), 3000),
       signal("probe-regularity", veryRegular(ivs), 1500) >>

-----------------------------------------------------------------------------
(* Activity Probe: listeners, handlers and the window timer                 *)

\* Events dispatched by the free driver, all within one probe window.
MaxEvents == 5
\* Events dispatched by the ramp driver, all within one probe window.
MaxRamp == 20
\* Events dispatched by the repeat driver, during and after the probe windows.
MaxRepeat == 3
\* Invocations of startActivityProbe under the repeat driver.
MaxProbes == 2

\* Events dispatched by the pointer driver, all within one probe window.
MaxPointer == 21

\* The events a driver dispatches and the probe windows it lives through.
Budget(drv) ==
    IF drv = "free" THEN MaxEvents
    ELSE IF drv = "ramp" THEN MaxRamp
    ELSE IF drv = "pointer" THEN MaxPointer
    ELSE MaxRepeat
Windows(drv) == IF drv = "repeat" THEN MaxProbes ELSE 1

EventTypes == {"pointermove", "click", "keydown", "scroll"}

\* Clock gaps between events of the free driver: below, at and above the 8 ms
\* floor; 20 ms is the gap of the regular sweep.
FreeGaps == {7, 8, 20}
\* Clock gaps of the ramp driver, spanning [100, 400] ms.
RampGaps == {100, 250, 400}
\* Pointer positions: two within 1px of each other and one far away.
Positions == {<<10, 10>>, <<11, 10>>, <<40, 40>>}
\* Where a driver puts the pointer: anywhere (pointer driver), or on one spot.
PositionsOf(drv) == IF drv = "pointer" THEN Positions ELSE {<<10, 10>>}

Abs(x) == IF x < 0 THEN -x ELSE x

\* Mutant of recordInterval: the first event pushes an interval too.
recordInterval_always(ivs, lt, t) == Append(ivs, t - lt)

\* if(lastT) intervals.push(t-lastT)
recordInterval(ivs, lt, t) == IF lt # 0 THEN Append(ivs, t - lt) ELSE ivs

\* if(pos && lastPos.x>=0){ ...; if(dx<=1 && dy<=1) tinyMoves++; ... }
recordTiny(tm, lp, pos) ==
    IF lp[1] >= 0 /\ Abs(pos[1] - lp[1]) <= 1 /\ Abs(pos[2] - lp[2]) <= 1
    THEN tm + 1 ELSE tm

\* if(pos && lastPos.x>=0){ ...; lastPos=pos }
recordLastPos(lp, pos) == IF lp[1] >= 0 THEN pos ELSE lp

\* window.addEventListener for pointermove, click, keydown and scroll.
addListeners(ls, r) == ls \cup {<<r, t>> : t \in EventTypes}

\* Mutant of removeListeners: the scroll handler is never removed.
removeListeners_keepScroll(ls, r) == ls \ {<<r, t>> : t \in EventTypes \ {"scroll"}}

\* window.removeEventListener for pointermove, click, keydown and scroll.
removeListeners(ls, r) == ls \ {<<r, t>> : t \in EventTypes}

ProbeInit(drv) ==
    /\ variant \in {"four", "two"} /\ driver = drv /\ ppc = "idle" /\ run = 0
    /\ listeners = {} /\ now = 1
    /\ moves = 0 /\ clicks = 0 /\ keys = 0 /\ scrolls = 0
    /\ lastPos = <<-1, -1>> /\ tinyMoves = 0
    /\ intervals = <<>> /\ lastT = 0
    /\ probeSignals = <<>> /\ evTimes = <<>> /\ liveAtCompute = {}
    /\ dispatched = 0
    /\ prevSample = <<>> /\ tinyExpected = 0

ProbeIdle == ProbeInit("free") /\ variant = "four"

\* startActivityProbe up to its await: fresh locals, four listeners registered.
Start ==
    /\ ppc \in {"idle", "done"}
    /\ run < Windows(driver)
    /\ run' = run + 1
    /\ ppc' = "listening"
    /\ listeners' = addListeners(listeners, run + 1)
    /\ moves' = 0 /\ clicks' = 0 /\ keys' = 0 /\ scrolls' = 0
    /\ lastPos' = <<-1, -1>> /\ tinyMoves' = 0
    /\ intervals' = <<>> /\ lastT' = 0
    /\ probeSignals' = <<>> /\ evTimes' = <<>> /\ liveAtCompute' = {}
    /\ prevSample' = <<>> /\ tinyExpected' = 0
    /\ UNCHANGED <<variant, driver, now, dispatched, notProbe>>

\* What the handler of this invocation for event type ty does at clock t:
\* onMove, onClick, onKey or onScroll, each followed by record.
Handle(ty, t, pos) ==
    /\ moves'   = IF ty = "pointermove" THEN moves + 1 ELSE moves
    /\ clicks'  = IF ty = "click" THEN clicks + 1 ELSE clicks
    /\ keys'    = IF ty = "keydown" THEN keys + 1 ELSE keys
    /\ scrolls' = IF ty = "scroll" THEN scrolls + 1 ELSE scrolls
    /\ intervals' = recordInterval(intervals, lastT, t)
    /\ lastT' = t
    /\ tinyMoves' = IF variant = "four" /\ ty = "pointermove"
                    THEN recordTiny(tinyMoves, lastPos, pos) ELSE tinyMoves
    /\ lastPos' = IF variant = "four" /\ ty = "pointermove"
                  THEN recordLastPos(lastPos, pos) ELSE lastPos
    /\ evTimes' = Append(evTimes, t)
    /\ prevSample' = IF ty = "pointermove" THEN pos ELSE prevSample
    /\ tinyExpected' =
          IF /\ ty = "pointermove" /\ prevSample # <<>>
             /\ Abs(pos[1] - prevSample[1]) <= 1 /\ Abs(pos[2] - prevSample[2]) <= 1
          THEN tinyExpected + 1 ELSE tinyExpected

\* The host dispatches one event of type ty, dt ms after the previous one; the
\* handler registered for it by the current invocation, if any, runs.
DispatchTo(ty, dt, pos) ==
    /\ now' = now + dt
    /\ dispatched' = dispatched + 1
    /\ IF <<run, ty>> \in listeners
       THEN Handle(ty, now + dt, pos)
       ELSE UNCHANGED <<moves, clicks, keys, scrolls, intervals, lastT,
                        tinyMoves, lastPos, evTimes, prevSample, tinyExpected>>
    /\ UNCHANGED <<variant, driver, ppc, run, listeners, probeSignals,
                   liveAtCompute, notProbe>>

\* The free and repeat drivers: any event type at any gap, during the window
\* and (repeat) after it has closed.
Dispatch ==
    /\ driver \in {"free", "repeat"}
    /\ ppc = "listening" \/ (driver = "repeat" /\ ppc = "done")
    /\ dispatched < Budget(driver)
    /\ \E ty \in EventTypes, dt \in FreeGaps :
          \E pos \in (IF ty = "pointermove" THEN PositionsOf(driver) ELSE {<<0, 0>>}) :
             DispatchTo(ty, dt, pos)

\* The ramp driver: a pointer sweep whose delay never shortens.  The statistics
\* are symmetric in the gaps, so sorted gap sequences stand for all of them.
DispatchRamp ==
    /\ driver = "ramp"
    /\ ppc = "listening"
    /\ dispatched < Budget(driver)
    /\ \E dt \in RampGaps, pos \in PositionsOf(driver) :
          /\ intervals # <<>> => dt >= intervals[Len(intervals)]
          /\ DispatchTo("pointermove", dt, pos)

\* The pointer driver: pointer moves to any position and clicks, 20 ms apart.
DispatchPointer ==
    /\ driver = "pointer"
    /\ ppc = "listening"
    /\ dispatched < Budget(driver)
    /\ \E ty \in {"pointermove", "click"} :
          \E pos \in (IF ty = "pointermove" THEN PositionsOf(driver) ELSE {<<0, 0>>}) :
             DispatchTo(ty, 20, pos)

\* The continuation after `await new Promise(r=>setTimeout(r, ms))': the four
\* listeners are removed, then the statistics are computed and returned.
TimerFire ==
    /\ ppc = "listening"
    /\ LET ls == removeListeners(listeners, run)
       IN  /\ listeners' = ls
           /\ liveAtCompute' = {l \in ls : l[1] = run}
    /\ probeSignals' =
          IF variant = "four"
          THEN fourSignals(moves, clicks, keys, scrolls, intervals, tinyMoves)
          ELSE twoSignals(moves, clicks, keys, scrolls, intervals)
    /\ ppc' = "done"
    /\ UNCHANGED <<variant, driver, run, now, moves, clicks, keys, scrolls,
                   lastPos, tinyMoves, intervals, lastT, evTimes, dispatched,
                   prevSample, tinyExpected, notProbe>>

ProbeNext == Start \/ Dispatch \/ TimerFire

RampNext == Start \/ DispatchRamp \/ TimerFire

PointerNext == Start \/ DispatchPointer \/ TimerFire

-----------------------------------------------------------------------------
(* Scenario Harness (headlessBot.js)                                        *)

\* Scenarios run by the harness: NScenarios consecutive entries of the
\* script's list of ten.
NScenarios == 3

\* The scenarios of the script in order: "actions" has a scripted action,
\* "init" a pre-navigation script, "plain" neither.
ScenarioList ==
    << "actions", "plain", "init", "plain", "actions",
       "init", "actions", "actions", "actions", "actions" >>

\* The scenario list entry of the n-th scenario run.
ScenarioAt(f, n) == f + n - 1
KindAt(f, n) == ScenarioList[ScenarioAt(f, n)]

NoDiag == [kind |-> "none", fields |-> {}]
NoGrab == [waitOk |-> FALSE, evalOk |-> FALSE, slot |-> FALSE, pre |-> FALSE, parses |-> FALSE]

\* The fields of the object runAllDetections stores in the global slot:
\* window.__BOT_DETECTION_OUTPUT__ = { summary, results: all, ts: Date.now() }
slotFields == {"summary", "results", "ts"}

\* The fields of the text the page renders in its <pre>:
\* JSON.stringify({ summary, signals: allSignals }, null, 2)
preFields == {"summary", "signals"}

\* return { summary: undefined, signals: [] }
emptyFields == {"summary", "signals"}

\* Mutant of grabDiagnostics: the try has no catch, a failing wait or
\* evaluation leaves the caller without a value.
grabDiagnostics_noCatch(waitOk, evalOk, slot, pre, parses) ==
    IF ~waitOk \/ ~evalOk THEN NoDiag
    ELSE IF slot THEN [kind |-> "slot", fields |-> slotFields]
    ELSE IF pre
         THEN IF parses THEN [kind |-> "parsed", fields |-> preFields]
              ELSE [kind |-> "raw", fields |-> {"raw"}]
    ELSE [kind |-> "empty", fields |-> emptyFields]

\* Mutant of grabDiagnostics: the <pre> text is looked at before the slot.
grabDiagnostics_preFirst(waitOk, evalOk, slot, pre, parses) ==
    IF ~waitOk \/ ~evalOk THEN [kind |-> "error", fields |-> {"error"}]
    ELSE IF pre
         THEN IF parses THEN [kind |-> "parsed", fields |-> preFields]
              ELSE [kind |-> "raw", fields |-> {"raw"}]
    ELSE IF slot THEN [kind |-> "slot", fields |-> slotFields]
    ELSE [kind |-> "empty", fields |-> emptyFields]

\* grabDiagnostics(page): the wait and the in-page evaluation are inside the
\* try; the evaluation prefers the global slot, then the parsed <pre> text, then
\* the raw text, then the empty default.
grabDiagnostics(waitOk, evalOk, slot, pre, parses) ==
    IF ~waitOk \/ ~evalOk THEN [kind |-> "error", fields |-> {"error"}]
    ELSE IF slot THEN [kind |-> "slot", fields |-> slotFields]
    ELSE IF pre
         THEN IF parses THEN [kind |-> "parsed", fields |-> preFields]
              ELSE [kind |-> "raw", fields |-> {"raw"}]
    ELSE [kind |-> "empty", fields |-> emptyFields]

\* reportScenario(results, name); the timestamp is left out.
reportScenario(d, name) == [scenario |-> name, result |-> d]

\* Mutant of afterAction: a throwing action rejects runScenario.
afterAction_uncaught(ok) == IF ok THEN "settle" ELSE "crashed"

\* Mutant of afterAction: diagnostics are extracted right after the action.
afterAction_skipSettle(ok) == "grab"

\* try { await actions(page) } catch (e) { console.error(...) }: the step that
\* follows the action, whether it returned or threw.
afterAction(ok) == "settle"

\* Mutant of push: the new report takes the place of the last one.
push_overwrite(rs, r) == IF rs = <<>> THEN <<r>> ELSE [rs EXCEPT ![Len(rs)] = r]

\* results.push(r)
push(rs, r) == Append(rs, r)

\* Mutant of closeBrowser: the browser instance is left open.
closeBrowser_leak(bs, k) == bs

\* browser.close(): the instance of scenario k is no longer open.
closeBrowser(bs, k) == bs \ {k}

HarnessInit ==
    /\ hpc = "launch" /\ first \in 1..(Len(ScenarioList) - NScenarios + 1) /\ scen = 1
    /\ browsers = {} /\ diag = NoDiag /\ grabbed = NoGrab /\ hresults = <<>>
    /\ persisted = 0 /\ steps = <<>> /\ fatal = "none" /\ threw = {}

HarnessIdle == HarnessInit /\ first = 1

\* Mutant of afterStep: a rejected step ends its scenario only, which reports.
afterStep_isolated(ok, next) == IF ok THEN next ELSE "report"

\* What follows an awaited step that is outside any try: `next' when it
\* completes; when it rejects, runScenario rejects, and main, which awaits it
\* outside any try, rejects with it.
afterStep(ok, next) == IF ok THEN next ELSE "crashed"

\* A step of runScenario that is awaited outside any try: it either completes
\* and the harness moves on to `next', or rejects, which rejects runScenario
\* and the main function with it.
Step(name, ok, next) ==
    /\ hpc = name
    /\ steps' = Append(steps, IF ok THEN name ELSE name \o "!")
    /\ hpc' = afterStep(ok, next)
    /\ fatal' = IF ok THEN fatal ELSE name

\* const browser = await chromium.launch(launchOptions)
Launch ==
    /\ hpc = "launch"
    /\ \E ok \in BOOLEAN :
          /\ hpc' = afterStep(ok, "context")
          /\ fatal' = IF ok THEN fatal ELSE "launch"
          /\ steps' = << IF ok THEN "launch" ELSE "launch!" >>
          /\ browsers' = IF ok THEN browsers \cup {scen} ELSE browsers
    /\ diag' = NoDiag /\ grabbed' = NoGrab
    /\ UNCHANGED <<first, scen, hresults, persisted, threw, notHarness>>

\* const context = await browser.newContext(contextOptions)
NewContext ==
    /\ \E ok \in BOOLEAN : Step("context", ok, "page")
    /\ UNCHANGED <<first, scen, browsers, diag, grabbed, hresults, persisted, threw, notHarness>>

\* const page = await context.newPage()
NewPage ==
    /\ \E ok \in BOOLEAN :
          Step("page", ok, IF KindAt(first, scen) = "init" THEN "init" ELSE "goto")
    /\ UNCHANGED <<first, scen, browsers, diag, grabbed, hresults, persisted, threw, notHarness>>

\* if (initScript) await page.addInitScript(initScript)
AddInitScript ==
    /\ \E ok \in BOOLEAN : Step("init", ok, "goto")
    /\ UNCHANGED <<first, scen, browsers, diag, grabbed, hresults, persisted, threw, notHarness>>

\* await page.goto(TARGET, { waitUntil: 'domcontentloaded' })
Goto ==
    /\ \E ok \in BOOLEAN :
          Step("goto", ok, IF KindAt(first, scen) = "actions" THEN "action" ELSE "settle")
    /\ UNCHANGED <<first, scen, browsers, diag, grabbed, hresults, persisted, threw, notHarness>>

\* if (actions) { try { await actions(page) } catch (e) { console.error(...) } }
Actions ==
    /\ hpc = "action"
    /\ \E ok \in BOOLEAN :
          /\ steps' = Append(steps, IF ok THEN "action" ELSE "action!")
          /\ hpc' = afterAction(ok)
          /\ fatal' = IF afterAction(ok) = "crashed" THEN "action" ELSE fatal
          /\ threw' = IF ok THEN threw ELSE threw \cup {scen}
    /\ UNCHANGED <<first, scen, browsers, diag, grabbed, hresults, persisted, notHarness>>

\* await page.waitForTimeout(waitAfter)
Settle ==
    /\ \E ok \in BOOLEAN : Step("settle", ok, "grab")
    /\ UNCHANGED <<first, scen, browsers, diag, grabbed, hresults, persisted, threw, notHarness>>

\* const diag = await grabDiagnostics(page)
Grab ==
    /\ hpc = "grab"
    /\ \E waitOk, evalOk, slot, pre \in BOOLEAN :
          \E parses \in (IF pre THEN BOOLEAN ELSE {FALSE}) :
             /\ diag' = grabDiagnostics(waitOk, evalOk, slot, pre, parses)
             /\ grabbed' = [waitOk |-> waitOk, evalOk |-> evalOk, slot |-> slot,
                            pre |-> pre, parses |-> parses]
    /\ steps' = Append(steps, "grab")
    /\ hpc' = "close"
    /\ UNCHANGED <<first, scen, browsers, hresults, persisted, fatal, threw, notHarness>>

\* await browser.close()
Close ==
    /\ \E ok \in BOOLEAN :
          /\ Step("close", ok, "report")
          /\ browsers' = IF ok THEN closeBrowser(browsers, scen) ELSE browsers
    /\ UNCHANGED <<first, scen, diag, grabbed, hresults, persisted, threw, notHarness>>

\* results.push(<the value of runScenario>), runScenario returning
\* reportScenario(diag, name); the main function goes on to the next scenario,
\* or to the write after the last one.
Report ==
    /\ hpc = "report"
    /\ hresults' = push(hresults, reportScenario(diag, ScenarioAt(first, scen)))
    /\ steps' = Append(steps, "report")
    /\ IF scen < NScenarios
       THEN hpc' = "launch" /\ scen' = scen + 1
       ELSE hpc' = "persist" /\ scen' = scen
    /\ UNCHANGED <<first, browsers, diag, grabbed, persisted, fatal, threw, notHarness>>

\* fs.writeFileSync(OUTFILE, JSON.stringify({ target: TARGET, results }, null, 2))
Persist ==
    /\ hpc = "persist"
    /\ persisted' = persisted + 1
    /\ hpc' = "exit"
    /\ UNCHANGED <<first, scen, browsers, diag, grabbed, hresults, steps, fatal, threw, notHarness>>

HarnessNext ==
    \/ Launch \/ NewContext \/ NewPage \/ AddInitScript \/ Goto \/ Actions
    \/ Settle \/ Grab \/ Close \/ Report \/ Persist

-----------------------------------------------------------------------------
(* Static detection pass (runStaticDetections and its detectors)            *)

\* Invocations of runStaticDetections over one set of sensor values.
MaxCalls == 2

\* What a detector that throws leaves in place of its Signal.
Thrown == [id |-> "thrown", suspicious |-> FALSE, weight |-> 0]

\* The values each sensor can hold.  "absent", "undefined", "nullctx" and
\* "missing" are a capability that is not there, "throws" a read that throws.
SensorValues ==
    [ webdriver   |-> {"absent", "false", "true"},
      globals     |-> {"none", "found"},
      pluginItems |-> {"missing", "throws", "native"},
      plugins     |-> {"absent", "empty", "some"},
      languages   |-> {"absent", "empty", "short", "ok"},
      webgl       |-> {"throws", "nullctx", "noext", "software", "fewext", "hardware"},
      touch       |-> {"absent", "zero", "five"},
      timezone    |-> {"throws", "undefined", "short", "ok"},
      screen      |-> {"absent", "undefined", "tiny", "ok"},
      cores       |-> {"absent", "one", "eight"},
      memory      |-> {"absent", "one", "eight"},
      chrome      |-> {"absent", "noapp", "notinstalled", "installed"},
      permissions |-> {"absent", "present"},
      webrtc      |-> {"absent", "present"},
      media       |-> {"absent", "present"},
      performance |-> {"absent", "present"},
      canvas      |-> {"throws", "nullctx", "lowhash", "midhash"},
      font        |-> {"throws", "zero", "narrow", "ok"},
      audio       |-> {"missing", "throws", "noanalyser", "ok"} ]

Sensors == DOMAIN SensorValues

\* navigator.userAgent, by what the patterns of the detectors match in it.
UserAgents == {"empty", "desktop", "headless", "android", "iphone"}

\* The sensor values of an ordinary desktop browser.
Ordinary ==
    [ webdriver |-> "false", globals |-> "none", pluginItems |-> "native",
      plugins |-> "some", languages |-> "ok", webgl |-> "hardware", touch |-> "zero",
      timezone |-> "ok", screen |-> "ok", cores |-> "eight", memory |-> "eight",
      chrome |-> "noapp", permissions |-> "present", webrtc |-> "present",
      media |-> "present", performance |-> "present", canvas |-> "midhash",
      font |-> "ok", audio |-> "ok", ua |-> "desktop" ]

\* By how many ms the performance.now() reading taken around the 50 ms
\* Date.now() busy-wait departs from 50: the thread is held, or the wall clock
\* is stepped, during the wait.
ClockSkews == {-6, 0, 5, 6}

\* const isIOS = () => /iP(hone|ad|od)/i.test(UA())
isIOS(sn) == sn.ua = "iphone"

\* const isMobileUA = () => /(Android|iPhone|iPad|Mobile)/i.test(UA())
isMobileUA(sn) == sn.ua \in {"android", "iphone"}

\* four: wd || "webdriver" in navigator;  two: navigator.webdriver === true
detectWebdriver(reg, sn) ==
    signal("webdriver",
           IF reg = "four" THEN sn.webdriver = "true" \/ sn.webdriver # "absent"
           ELSE sn.webdriver = "true",
           3000)

\* patterns.some(p => ua.includes(p))
detectHeadlessUA(sn) == signal("ua-headless", sn.ua = "headless", 2000)

\* suspects.filter(k => k in g).length > 0
detectAutomationGlobals(sn) == signal("automation-globals", sn.globals = "found", 3000)

\* pluginsItem and mimeItem are booleans; pluginsItem.toString() is "true" or
\* "false" and never includes "native code", so the third disjunct is true.
detectFunctionTampering(sn) ==
    IF sn.pluginItems = "throws" THEN signal("fn-tamper", TRUE, 1500)
    ELSE LET pluginsItem == sn.pluginItems = "native"
             mimeItem    == sn.pluginItems = "native"
             hasNative   == FALSE
         IN  signal("fn-tamper", ~pluginsItem \/ ~mimeItem \/ (hasNative = FALSE), 1500)

\* len === 0 && !isIOS(), weight isIOS() ? 0.5 : 1.5
detectPluginsAnomaly(sn) ==
    LET len == IF sn.plugins = "some" THEN 3 ELSE 0
    IN  signal("plugins", len = 0 /\ ~isIOS(sn), IF isIOS(sn) THEN 500 ELSE 1500)

\* four: langs.length === 0 || langs.some(l => l.length < 2);  two: langs.length === 0
detectLanguagesAnomaly(reg, sn) ==
    signal("languages",
           IF reg = "four" THEN sn.languages \in {"absent", "empty", "short"}
           ELSE sn.languages \in {"absent", "empty"},
           1500)

\* getWebGLInfo().extCount, defaulted to 0 by detectWebGLBlacklist (four).
extCount(sn) ==
    IF sn.webgl \in {"throws", "nullctx"} THEN 0
    ELSE IF sn.webgl = "fewext" THEN 12 ELSE 30

\* four: blacklist.some(b => r.includes(b)) || extCount < 20;
\* two:  blacklist.some(b => r.includes(b)), r empty without a context.
detectWebGLBlacklist(reg, sn) ==
    signal("webgl",
           IF reg = "four" THEN sn.webgl = "software" \/ extCount(sn) < 20
           ELSE sn.webgl = "software",
           2500)

\* maxTouch = navigator.maxTouchPoints ?? 0; weight = suspect ? 2 : mild ? 1 : 0
detectTouchMismatch(sn) ==
    LET maxTouch == IF sn.touch = "five" THEN 5 ELSE 0
        suspect  == isMobileUA(sn) /\ maxTouch = 0
        mild     == ~isMobileUA(sn) /\ maxTouch >= 5
    IN  signal("touch", suspect \/ mild, IF suspect THEN 2000 ELSE IF mild THEN 1000 ELSE 0)

\* try { tz = ... } catch {};  !tz || typeof tz !== "string" || tz.length < 3
detectTimezoneAvailable(sn) == signal("timezone", sn.timezone # "ok", 1000)

\* window.screen.width is read outside any try; an undefined width or height
\* makes every comparison false.
detectScreenResolution(sn) ==
    IF sn.screen = "absent" THEN Thrown
    ELSE signal("screen", sn.screen = "tiny", 1000)

\* cores = hardwareConcurrency ?? 1, memory = deviceMemory ?? 1; cores <= 1 || memory <= 1
detectDeviceSpecs(sn) ==
    LET cores  == IF sn.cores = "eight" THEN 8 ELSE 1
        memory == IF sn.memory = "eight" THEN 8 ELSE 1
    IN  signal("device-specs", cores <= 1 \/ memory <= 1, 1000)

\* installed = window.chrome?.app?.isInstalled;  installed === false
detectChromeApp(sn) == signal("chrome-app", sn.chrome = "notinstalled", 1000)

\* !("permissions" in navigator)
detectPermissionsAPI(sn) == signal("permissions-api", sn.permissions = "absent", 1000)

\* !("RTCPeerConnection" in window)
detectWebRTC(sn) == signal("webrtc", sn.webrtc = "absent", 1000)

\* !(navigator.mediaDevices?.enumerateDevices)
detectMediaDevices(sn) == signal("media-devices", sn.media = "absent", 1000)

\* performance.now() is read outside any try; delta is the performance.now()
\* time taken by the busy-wait on Date.now(); Math.abs(delta - delay) > 5.
detectPerformanceNowDrift(sn, skew) ==
    IF sn.performance = "absent" THEN Thrown
    ELSE LET delay == 50
             delta == delay + skew
         IN  signal("perf-drift", Abs(delta - delay) > 5, 2000)

\* if (!ctx) return signal("canvas", ..., true, 2);  hash<1000 || hash>9000
detectCanvasFingerprint(sn) ==
    IF sn.canvas = "nullctx" THEN signal("canvas", TRUE, 2000)
    ELSE IF sn.canvas = "throws" THEN signal("canvas-fp", TRUE, 2000)
    ELSE signal("canvas-fp", sn.canvas = "lowhash", 1500)

\* !w || w < 10, and suspicious when the probe throws
detectFontEnumeration(sn) == signal("font-probe", sn.font # "ok", 500)

\* if (!AC) ... true;  !allowed;  catch ... true
detectAudioContext(sn) == signal("audio", sn.audio # "ok", 500)

\* The detectors of runStaticDetections in call order.
detectorList(reg, sn, skew) ==
    IF reg = "four"
    THEN << detectWebdriver(reg, sn), detectHeadlessUA(sn), detectAutomationGlobals(sn),
            detectFunctionTampering(sn), detectPluginsAnomaly(sn),
            detectLanguagesAnomaly(reg, sn), detectWebGLBlacklist(reg, sn),
            detectTouchMismatch(sn), detectTimezoneAvailable(sn),
            detectScreenResolution(sn), detectDeviceSpecs(sn), detectChromeApp(sn),
            detectPermissionsAPI(sn), detectWebRTC(sn), detectMediaDevices(sn),
            detectPerformanceNowDrift(sn, skew), detectCanvasFingerprint(sn),
            detectFontEnumeration(sn), detectAudioContext(sn) >>
    ELSE << detectWebdriver(reg, sn), detectHeadlessUA(sn), detectPluginsAnomaly(sn),
            detectLanguagesAnomaly(reg, sn), detectWebGLBlacklist(reg, sn),
            detectTouchMismatch(sn), detectTimezoneAvailable(sn),
            detectScreenResolution(sn), detectDeviceSpecs(sn), detectChromeApp(sn),
            detectPermissionsAPI(sn), detectWebRTC(sn) >>

\* runStaticDetections(): the array of the detectors' Signals; a detector that
\* throws makes the call throw, and no array is returned.
runStaticDetections(reg, sn, skew) ==
    LET all == detectorList(reg, sn, skew)
    IN  IF \E i \in DOMAIN all : all[i] = Thrown
        THEN [threw |-> TRUE, signals |-> <<>>]
        ELSE [threw |-> FALSE, signals |-> all]

\* The position in detectorList of the detector that reads a sensor, 0 when
\* no detector of the registry reads it.
readerOf(reg, k) ==
    IF reg = "four"
    THEN [ webdriver |-> 1, globals |-> 3, pluginItems |-> 4, plugins |-> 5,
           languages |-> 6, webgl |-> 7, touch |-> 8, timezone |-> 9, screen |-> 10,
           cores |-> 11, memory |-> 11, chrome |-> 12, permissions |-> 13,
           webrtc |-> 14, media |-> 15, performance |-> 16, canvas |-> 17,
           font |-> 18, audio |-> 19 ][k]
    ELSE [ webdriver |-> 1, globals |-> 0, pluginItems |-> 0, plugins |-> 3,
           languages |-> 4, webgl |-> 5, touch |-> 6, timezone |-> 7, screen |-> 8,
           cores |-> 9, memory |-> 9, chrome |-> 10, permissions |-> 11,
           webrtc |-> 12, media |-> 0, performance |-> 0, canvas |-> 0,
           font |-> 0, audio |-> 0 ][k]

\* A page in some browser: any user agent, and one sensor holding any of its
\* values while the others hold the ordinary browser's.
StaticInit ==
    /\ registry \in {"four", "two"}
    /\ faulted \in Sensors
    /\ \E u \in UserAgents, v \in UNION {SensorValues[k] : k \in Sensors} :
          /\ v \in SensorValues[faulted]
          /\ snap = [Ordinary EXCEPT ![faulted] = v, !["ua"] = u]
    /\ calls = 0 /\ skews = <<>> /\ passes = <<>>

StaticIdle ==
    /\ registry = "four" /\ faulted = "webdriver" /\ snap = Ordinary
    /\ calls = 0 /\ skews = <<>> /\ passes = <<>>

\* One invocation of runStaticDetections; the sensor values stay as they are,
\* the clock does what it does.
RunStatic ==
    /\ calls < MaxCalls
    /\ \E skew \in ClockSkews :
          /\ passes' = Append(passes, runStaticDetections(registry, snap, skew))
          /\ skews' = Append(skews, skew)
    /\ calls' = calls + 1
    /\ UNCHANGED <<registry, snap, faulted, notStatic>>

StaticNext == RunStatic

-----------------------------------------------------------------------------
(* The merged Signal collection of one detection pass                       *)

NoMerge == [threw |-> FALSE, ran |-> FALSE, signals |-> <<>>]

\* What the activity probe counted in its window, for the passes merged here.
ProbeRuns ==
    { [moves |-> 0, intervals |-> <<>>],
      [moves |-> 3, intervals |-> <<7, 20>>],
      [moves |-> 6, intervals |-> <<20, 20, 20, 20, 20>>] }

\* What the behavioural and micro listeners saw.
Flags3 == {<<FALSE, FALSE, FALSE>>, <<TRUE, FALSE, TRUE>>}
Flags5 == {<<FALSE, FALSE, FALSE, FALSE, FALSE>>, <<TRUE, FALSE, TRUE, FALSE, TRUE>>}

\* Date.now() when handleProbe builds its ids.
Stamps == {"1700000000000", "1700000007000"}

\* startActivityProbe's result for such a window.
probeResults(reg, p) ==
    IF reg = "four" THEN fourSignals(p.moves, 0, 0, 0, p.intervals, 0)
    ELSE twoSignals(p.moves, 0, 0, 0, p.intervals)

\* detectFocusBlurPatterns, detectResizeEvents, detectTouchGestures: the
\* four-signal engine awaits its window before reading the flag; the two-signal
\* engine returns at once, before its listener can have run.
behavioralResults(reg, f) ==
    << signal("focus-blur", reg = "four" /\ f[1], 500),
       signal("resize", reg = "four" /\ f[2], 500),
       signal("touch-gestures", reg = "four" /\ f[3], 1000) >>

\* useBehavioralSignals
useBehavioralSignals(f) ==
    << signal("behavioral-focus-blur", f[1], 500),
       signal("behavioral-resize", f[2], 500),
       signal("behavioral-touch-gestures", f[3], 1000) >>

\* useMicroSignals
useMicroSignals(g) ==
    << signal("micro-fast-mouse", g[1], 1000),
       signal("micro-linear-mouse", g[2], 800),
       signal("micro-fast-typing", g[3], 1000),
       signal("micro-scroll-patterns", g[4], 500),
       signal("micro-hover-duration", g[5], 500) >>

\* handleProbe: probeResults.map((s, i) => ({ ...s, id: `${s.id}-probe-${i}-${ts}` }))
uniqueProbes(rs, ts) ==
    [i \in 1..Len(rs) |->
        [rs[i] EXCEPT !.id = rs[i].id \o "-probe-" \o <<"0", "1", "2", "3">>[i] \o "-" \o ts]]

\* The Signals of rs, each marked with the group g it was produced by.
from(g, rs) ==
    [i \in 1..Len(rs) |->
        [from |-> g, id |-> rs[i].id, suspicious |-> rs[i].suspicious,
         weight |-> rs[i].weight]]

\* Mutant of runAllDetections: the probe's Signals are spread twice.
runAllDetections_probeTwice(staticResults, dynamicResults, behavioral) ==
    from("static", staticResults) \o from("probe", dynamicResults)
        \o from("probe", dynamicResults) \o from("behavioural", behavioral)

\* const all = [...staticResults, ...dynamicResults, ...behavioralResults]
runAllDetections(staticResults, dynamicResults, behavioral) ==
    from("static", staticResults) \o from("probe", dynamicResults)
        \o from("behavioural", behavioral)

\* [...staticSignals, ...behavioralSignals, ...microSignals, ...probeSignals]
allSignals(staticSignals, behavioralSignals, microSignals, pageProbeSignals) ==
    from("static", staticSignals) \o from("behavioural", behavioralSignals)
        \o from("micro", microSignals) \o from("probe", pageProbeSignals)

\* The page imports the two-signal engine.
MergeInit ==
    /\ composer \in {"runAll", "page"}
    /\ composer = "page" => registry = "two"
    /\ merged = NoMerge

MergeIdle == composer = "runAll" /\ merged = NoMerge

\* One call of runAllDetections: the static pass, the probe window, the
\* behavioural detectors, the merge.  A throwing detector rejects the call.
RunAll ==
    /\ composer = "runAll" /\ ~merged.ran
    /\ \E skew \in ClockSkews, p \in ProbeRuns, f \in Flags3 :
          LET st == runStaticDetections(registry, snap, skew)
          IN  merged' =
                 IF st.threw THEN [threw |-> TRUE, ran |-> TRUE, signals |-> <<>>]
                 ELSE [threw |-> FALSE, ran |-> TRUE,
                       signals |-> runAllDetections(st.signals,
                                       probeResults(registry, p),
                                       behavioralResults(registry, f))]
    /\ UNCHANGED <<composer, staticVars, notMerge>>

\* The page after its mount effects, with or without a run of handleProbe.
PageMerge ==
    /\ composer = "page" /\ ~merged.ran
    /\ \E p \in ProbeRuns, f \in Flags3, g \in Flags5, ts \in Stamps, probed \in BOOLEAN :
          LET st == runStaticDetections(registry, snap, 0)
          IN  merged' =
                 IF st.threw THEN [threw |-> TRUE, ran |-> TRUE, signals |-> <<>>]
                 ELSE [threw |-> FALSE, ran |-> TRUE,
                       signals |-> allSignals(st.signals, useBehavioralSignals(f),
                                       useMicroSignals(g),
                                       IF probed
                                       THEN uniqueProbes(probeResults(registry, p), ts)
                                       ELSE <<>>)]
    /\ UNCHANGED <<composer, staticVars, notMerge>>

MergeNext == RunAll \/ PageMerge

-----------------------------------------------------------------------------
(* runAllDetections on the window: listeners, events and timers            *)

\* Invocations of runAllDetections, one after the other.
MaxRuns == 2
\* blur, resize and gesturestart events dispatched on the window.
MaxWindowEvents == 3

\* The events the behavioural detectors listen for, in the order in which
\* runAllDetections calls detectFocusBlurPatterns, detectResizeEvents and
\* detectTouchGestures.
BehaviouralTypes == {"blur", "resize", "gesturestart"}
behaviouralOrder == <<"blur", "resize", "gesturestart">>

\* return signal(id, name, flag, weight) of the detector that listens for t.
behaviouralSignal(t, flag) ==
    CASE t = "blur"         -> signal("focus-blur", flag, 500)
      [] t = "resize"       -> signal("resize", flag, 500)
      [] t = "gesturestart" -> signal("touch-gestures", flag, 1000)

\* Mutant of awaitsWindow: the detectors of both engines await their timer.
awaitsWindow_always(reg) == TRUE

\* four: await new Promise(r => setTimeout(r, ms)) between addEventListener and
\* the return; two: the return follows addEventListener at once.
awaitsWindow(reg) == reg = "four"

\* let lostFocus = false, let resized = false, let pinch = false
NoFlags == [t \in BehaviouralTypes |-> FALSE]

\* window.addEventListener(t, () => flag = true) of the three detectors of
\* invocation r; none of them calls removeEventListener.
addBehavioural(ls, r) == ls \cup {<<r, t>> : t \in BehaviouralTypes}

\* What the promise of a call settles with.
rejected == [threw |-> TRUE, ran |-> TRUE, signals |-> <<>>]
resolved(all) == [threw |-> FALSE, ran |-> TRUE, signals |-> all]

WindowIdle ==
    /\ wpc = "idle" /\ invocation = 0
    /\ windowListeners = {}
    /\ closures = [r \in 1..MaxRuns |-> NoFlags]
    /\ timers = <<>>
    /\ wStatic = <<>> /\ wDynamic = <<>> /\ wBehavioral = <<>>
    /\ returned = NoMerge
    /\ listenersBefore = 0 /\ windowEvents = 0

\* The host of the calls: either engine, in an ordinary desktop browser.
WindowStatic == StaticInit /\ snap = Ordinary /\ faulted = "webdriver"

\* runAllDetections up to its first await: the static pass, then
\* startActivityProbe up to its timer, its four listeners registered.  A
\* throwing detector rejects the call before anything is registered.
CallRunAll ==
    /\ wpc \in {"idle", "settled"}
    /\ invocation < MaxRuns
    /\ \E skew \in ClockSkews :
          LET st == runStaticDetections(registry, snap, skew)
          IN  /\ wStatic' = st.signals
              /\ IF st.threw
                 THEN /\ wpc' = "settled"
                      /\ returned' = rejected
                      /\ windowListeners' = windowListeners
                 ELSE /\ wpc' = "probe"
                      /\ returned' = returned
                      /\ windowListeners' = addListeners(windowListeners, invocation + 1)
    /\ invocation' = invocation + 1
    /\ listenersBefore' = Cardinality(windowListeners)
    /\ wDynamic' = <<>> /\ wBehavioral' = <<>> /\ timers' = <<>>
    /\ UNCHANGED <<closures, windowEvents, notWindow>>

\* The probe's timer fires: its four listeners are removed and its Signals
\* computed; runAllDetections resumes and calls the three behavioural
\* detectors, each of which registers its listener.  The four-signal detectors
\* then await their own timers; the two-signal detectors return their flags at
\* once, and the call merges, summarises and resolves.
ProbeWindowClose ==
    /\ wpc = "probe"
    /\ \E p \in ProbeRuns :
          LET dyn  == probeResults(registry, p)
              read == [i \in 1..3 |->
                          behaviouralSignal(behaviouralOrder[i],
                                            closures[invocation][behaviouralOrder[i]])]
          IN  /\ wDynamic' = dyn
              /\ IF awaitsWindow(registry)
                 THEN /\ wpc' = "await"
                      /\ timers' = behaviouralOrder
                      /\ wBehavioral' = <<>>
                      /\ returned' = returned
                 ELSE /\ wpc' = "settled"
                      /\ timers' = <<>>
                      /\ wBehavioral' = read
                      /\ returned' = resolved(runAllDetections(wStatic, dyn, read))
    /\ windowListeners' =
          addBehavioural(removeListeners(windowListeners, invocation), invocation)
    /\ UNCHANGED <<invocation, closures, wStatic, listenersBefore, windowEvents, notWindow>>

\* The timer of one behavioural detector of the four-signal engine fires: the
\* detector returns its flag as it is now.  After the last one Promise.all
\* resolves and the call merges, summarises and resolves.
BehaviouralTimer ==
    /\ wpc = "await" /\ timers # <<>>
    /\ LET t   == Head(timers)
           got == Append(wBehavioral, behaviouralSignal(t, closures[invocation][t]))
       IN  /\ wBehavioral' = got
           /\ timers' = Tail(timers)
           /\ IF Tail(timers) = <<>>
              THEN /\ wpc' = "settled"
                   /\ returned' = resolved(runAllDetections(wStatic, wDynamic, got))
              ELSE /\ wpc' = wpc
                   /\ returned' = returned
    /\ UNCHANGED <<invocation, windowListeners, closures, wStatic, wDynamic,
                   listenersBefore, windowEvents, notWindow>>

\* The host dispatches a blur, resize or gesturestart event: every listener
\* registered for it runs and sets the flag of its own closure.
DispatchWindow ==
    /\ windowEvents < MaxWindowEvents
    /\ \E t \in BehaviouralTypes :
          closures' = [r \in DOMAIN closures |->
                          IF <<r, t>> \in windowListeners
                          THEN [closures[r] EXCEPT ![t] = TRUE]
                          ELSE closures[r]]
    /\ windowEvents' = windowEvents + 1
    /\ UNCHANGED <<wpc, invocation, windowListeners, timers, wStatic, wDynamic,
                   wBehavioral, returned, listenersBefore, notWindow>>

WindowNext == CallRunAll \/ ProbeWindowClose \/ BehaviouralTimer \/ DispatchWindow

-----------------------------------------------------------------------------
(* The page's summary effect (page.tsx)                                     *)

\* deviceFactor: 0.7 on iPhone/iPad/iPod, 0.85 on Android or Mobile, 1 otherwise.
DeviceFactors == {700, 850, 1000}

\* allSignals.map((s) => ({ ...s, weight: s.weight * deviceFactor }))
weightedSignals(rs, f) ==
    [i \in 1..Len(rs) |-> [rs[i] EXCEPT !.weight = (rs[i].weight * f) \div 1000]]

\* The detectors' own weights are multiples of 0.1, so that the scaled ones
\* are whole thousandths.
Unscaled(rs) == \A i \in DOMAIN rs : rs[i].weight % 100 = 0

PageIdle == deviceFactor = 1000

\* The effect on allSignals: the weights are scaled by the device factor and
\* the scaled collection is summarised by the two-signal engine's summarize,
\* which the page imports.
PageSummary ==
    /\ summary = NoSummary
    /\ Unscaled(results)
    /\ \E f \in DeviceFactors :
          /\ deviceFactor' = f
          /\ \E d \in TieDirs(weightedSignals(results, f)) :
                summary' = summarizeLib(weightedSignals(results, f), d[1], d[2])
    /\ UNCHANGED <<results, notPage>>

PageNext == AddSignal \/ PageSummary

-----------------------------------------------------------------------------
(* The diagnostic snapshot through JSON.stringify and JSON.parse            *)

\* The page's summary state is null until summarize has run.
NullSummary == [present |-> FALSE, score |-> 0, max |-> 0, level |-> "none"]

\* { summary, signals: allSignals }
snapshot(sm, rs) ==
    [ summary |-> IF sm = NoSummary THEN NullSummary
                  ELSE [present |-> TRUE, score |-> sm.score, max |-> sm.max,
                        level |-> sm.level],
      signals |-> rs ]

\* Mutant of numberText: one decimal digit is written.
numberText_oneDecimal(x) == [whole |-> x \div 1000, milli |-> ((x % 1000) \div 100) * 100]

\* JSON.stringify of a finite non-negative number: its shortest decimal
\* numeral, here the digits before and after the decimal point.
numberText(x) == [whole |-> x \div 1000, milli |-> x % 1000]

\* JSON.parse of a decimal numeral.
parseNumber(t) == t.whole * 1000 + t.milli

\* JSON.stringify and JSON.parse of a boolean.
boolText(b) == IF b THEN "true" ELSE "false"
parseBool(t) == t = "true"

\* JSON.stringify(v, null, 2) of a snapshot: null for a null summary, the
\* members of each object in insertion order.
stringify(v) ==
    [ summary |-> IF v.summary.present
                  THEN [lit |-> "object", score |-> numberText(v.summary.score),
                        max |-> numberText(v.summary.max), level |-> v.summary.level]
                  ELSE [lit |-> "null", score |-> numberText(0), max |-> numberText(0),
                        level |-> "none"],
      signals |-> [i \in 1..Len(v.signals) |->
                     [id |-> v.signals[i].id,
                      suspicious |-> boolText(v.signals[i].suspicious),
                      weight |-> numberText(v.signals[i].weight)]] ]

\* JSON.parse of such a text.
parse(t) ==
    [ summary |-> IF t.summary.lit = "object"
                  THEN [present |-> TRUE, score |-> parseNumber(t.summary.score),
                        max |-> parseNumber(t.summary.max), level |-> t.summary.level]
                  ELSE NullSummary,
      signals |-> [i \in 1..Len(t.signals) |->
                     [id |-> t.signals[i].id,
                      suspicious |-> parseBool(t.signals[i].suspicious),
                      weight |-> parseNumber(t.signals[i].weight)]] ]

JsonIdle ==
    /\ jpc = "page"
    /\ jsnap = snapshot(NoSummary, <<>>)
    /\ jtext = stringify(jsnap)
    /\ jvalue = jsnap

\* The page builds its collection and summarises it.
PageStep == jpc = "page" /\ SumNext /\ UNCHANGED jsonVars

\* const json = useMemo(() => JSON.stringify({ summary, signals: allSignals }, null, 2), ...),
\* rendered in the <pre>.
Render ==
    /\ jpc = "page"
    /\ jsnap' = snapshot(summary, results)
    /\ jtext' = stringify(snapshot(summary, results))
    /\ jpc' = "rendered"
    /\ UNCHANGED <<jvalue, sumVars, notJson>>

\* grabDiagnostics: return JSON.parse(pre.innerText)
ParsePre ==
    /\ jpc = "rendered"
    /\ jvalue' = parse(jtext)
    /\ jpc' = "grabbed"
    /\ UNCHANGED <<jsnap, jtext, sumVars, notJson>>

\* fs.writeFileSync(OUTFILE, JSON.stringify({ target: TARGET, results }, null, 2))
WriteDoc ==
    /\ jpc = "grabbed"
    /\ jtext' = stringify(jvalue)
    /\ jpc' = "written"
    /\ UNCHANGED <<jsnap, jvalue, sumVars, notJson>>

\* A reader of the output document parses it back.
ReadBack ==
    /\ jpc = "written"
    /\ jvalue' = parse(jtext)
    /\ jpc' = "read"
    /\ UNCHANGED <<jsnap, jtext, sumVars, notJson>>

JsonNext == PageStep \/ Render \/ ParsePre \/ WriteDoc \/ ReadBack

-----------------------------------------------------------------------------
(* Claims about the Risk Summarizer (checked under SpecSum)                 *)

Summarized == summary # NoSummary

\* The sum of the weights of the Signals of rs that satisfy keep, in thousandths.
WeightSum(rs, keep(_)) ==
    SumSeq([i \in 1..Len(rs) |-> IF keep(rs[i]) THEN rs[i].weight ELSE 0])

IsSuspicious(s) == s.suspicious
AnySignal(s)    == TRUE

\* C1: for every Signal collection with non-negative weights, the empty one
\* included, the Summary of either engine variant has 0 <= score <= max.
C1_ScoreWithinMax ==
    Summarized => 0 <= summary.score /\ summary.score <= summary.max

\* A Summary with 0 < score < max, some Signals suspicious and some not.
C1_Witness ==
    /\ Summarized /\ 0 < summary.score /\ summary.score < summary.max
    /\ \E i, j \in 1..Len(results) : results[i].suspicious /\ ~results[j].suspicious

\* C2 as stated: score is exactly the sum of the weights of the suspicious
\* Signals and max exactly the sum of all weights, for any weights (0.35, 0.85).
C2_ExactSums ==
    Summarized =>
        /\ summary.score = WeightSum(results, IsSuspicious)
        /\ summary.max = WeightSum(results, AnySignal)

\* C2 as amended: score and max are those two sums rounded to one decimal
\* place: multiples of 0.1 within 0.05 of the sums, hence the sums themselves
\* whenever these are multiples of 0.1.
C2_RoundedSums ==
    Summarized =>
        LET s == WeightSum(results, IsSuspicious)
            m == WeightSum(results, AnySignal)
        IN  /\ summary.score % 100 = 0 /\ summary.max % 100 = 0
            /\ summary.score - s <= 50 /\ s - summary.score <= 50
            /\ summary.max - m <= 50 /\ m - summary.max <= 50

\* A Summary whose score and max both differ from the sums they round.
C2_Witness ==
    /\ Summarized
    /\ summary.score # WeightSum(results, IsSuspicious)
    /\ summary.max # WeightSum(results, AnySignal)
    /\ summary.score < summary.max

\* C3: the level is decided by the ratio score/max in every engine variant:
\* high iff score/max >= 0.7, medium iff 0.4 <= score/max < 0.7, low otherwise.
C3_RatioPolicy ==
    Summarized =>
        LET s == WeightSum(results, IsSuspicious)
            m == WeightSum(results, AnySignal)
        IN  /\ summary.level = "high" <=> (m > 0 /\ 10 * s >= 7 * m)
            /\ summary.level = "medium" <=> (m > 0 /\ 10 * s >= 4 * m /\ 10 * s < 7 * m)
            /\ summary.level = "low" <=> (m = 0 \/ 10 * s < 4 * m)

\* C31: in the document { summary, signals } of the page, with signals the
\* collection as the detectors returned it, summary.max is the sum of the listed
\* weights and summary.score the sum of the listed suspicious weights, on every
\* identity string.
C31_DocumentSumsMatch ==
    (Summarized /\ summary.engine = "raw" /\ Unscaled(results)) =>
        /\ summary.max = maxOf(results)
        /\ summary.score = scoreOf(results)

\* C28: the level the page shows depends only on the ratio score/max: the
\* collection scaled by the device factor and the collection as it is have the
\* same ratio, and the level the page derives from the scaled one is the level
\* its summarize gives the unscaled one.
C28_LevelScaleInvariant ==
    (Summarized /\ summary.engine = "raw" /\ Unscaled(results)) =>
        \A d \in TieDirs(results) :
            summary.level = summarizeLib(results, d[1], d[2]).level

-----------------------------------------------------------------------------
(* Claims about the Activity Probe                                          *)

ProbeDone == ppc = "done"

\* The Signal with the given id among those the probe returned.
Sig(id) == CHOOSE x \in {probeSignals[i] : i \in 1..Len(probeSignals)} : x.id = id

\* The gaps between consecutive qualifying events of this window, from the
\* history of their clock readings.
Gaps == [i \in 1..(Len(evTimes) - 1) |-> evTimes[i + 1] - evTimes[i]]

\* The Bessel-corrected variance of the gaps g is below c (0 with fewer than
\* two gaps): (n*sum(g^2) - sum(g)^2) / (n*(n-1)) < c.
VarianceBelow(g, c) ==
    LET n == Len(g)
        S == SumSeq(g)
        Q == SumSeq([i \in 1..n |-> g[i] * g[i]])
    IN  IF n > 1 THEN n * Q - S * S < c * n * (n - 1) ELSE 0 < c

\* The Shannon entropy of the normalised gaps g is below c bits.
EntropyBelow(g, c) == entropyLt(g, c)

\* C4: a window with no qualifying event returns "no input" suspicious and
\* "too regular" not suspicious.
C4_NoEventsNotRegular ==
    (ProbeDone /\ evTimes = <<>>) =>
        /\ Sig("probe-no-input").suspicious
        /\ ~Sig("probe-regularity").suspicious

\* C5: n >= 5 qualifying events whose gaps are all exactly 20 ms make "too
\* regular" suspicious, n = 5 included.
C5_FixedGapRegular ==
    (ProbeDone /\ Len(evTimes) >= 5 /\ \A i \in DOMAIN Gaps : Gaps[i] = 20) =>
        Sig("probe-regularity").suspicious

\* C6: in the four-signal probe "too regular" is suspicious only when both the
\* Bessel-corrected variance of the gaps is below 5 and their entropy is below 2.
C6_RegularNeedsBoth ==
    (ProbeDone /\ variant = "four") =>
        (Sig("probe-regularity").suspicious =>
            VarianceBelow(Gaps, 5) /\ EntropyBelow(Gaps, 2))

\* Low variance alone: at least four gaps, variance below 5, entropy at least
\* 2, and the Signal not set.
C6_Witness ==
    /\ ProbeDone /\ variant = "four"
    /\ Len(Gaps) >= 4
    /\ VarianceBelow(Gaps, 5) /\ ~EntropyBelow(Gaps, 2)
    /\ ~Sig("probe-regularity").suspicious

\* C7: in the four-signal probe "impossible speed" is suspicious if and only if
\* some gap between consecutive qualifying events is below 8 ms.
C7_ImpossibleSpeedIffShortGap ==
    (ProbeDone /\ variant = "four") =>
        (Sig("probe-impossible-speed").suspicious <=>
            \E i \in DOMAIN Gaps : Gaps[i] < 8)

\* One gap below 8 ms, followed by longer ones, and the Signal set.
C7_Witness ==
    /\ ProbeDone /\ variant = "four" /\ Len(Gaps) >= 3
    /\ Gaps[1] < 8 /\ \A i \in 2..Len(Gaps) : Gaps[i] >= 8
    /\ Sig("probe-impossible-speed").suspicious

\* n >= 20 qualifying events, every gap within [100, 400] ms.
SteadyWindow ==
    /\ ProbeDone /\ Len(evTimes) >= 20
    /\ \A i \in DOMAIN Gaps : 100 <= Gaps[i] /\ Gaps[i] <= 400

\* C8 as stated: after such a window "too regular" and "impossible speed" are
\* not suspicious, whatever the gaps, all gaps equal included.
C8_SteadyNeverFlagged ==
    SteadyWindow =>
        /\ ~Sig("probe-regularity").suspicious
        /\ variant = "four" => ~Sig("probe-impossible-speed").suspicious

\* C8 as amended: after such a window the four-signal probe reports neither
\* Signal, whatever the gaps; the two-signal probe reports "too regular"
\* exactly when the Bessel-corrected variance of the gaps is below 5.
C8_SteadyAmended ==
    SteadyWindow =>
        /\ variant = "four" =>
              /\ ~Sig("probe-regularity").suspicious
              /\ ~Sig("probe-impossible-speed").suspicious
        /\ variant = "two" =>
              (Sig("probe-regularity").suspicious <=> VarianceBelow(Gaps, 5))

\* A steady window of the four-signal probe holding both a 100 ms and a 400 ms gap.
C8_Witness ==
    /\ SteadyWindow /\ variant = "four"
    /\ \E i, j \in DOMAIN Gaps : Gaps[i] = 100 /\ Gaps[j] = 400

\* The handlers an invocation registers.
OwnHandlers(r) == {<<r, t>> : t \in EventTypes}

\* Outside a window no handler is registered, inside it exactly the current
\* invocation's four; the statistics were computed with none of them left.
C9_State ==
    /\ ppc # "listening" => listeners = {}
    /\ ppc = "listening" => listeners = OwnHandlers(run)
    /\ ProbeDone => liveAtCompute = {}

\* Once the promise has settled, an event changes no counter and no interval.
C9_Step ==
    (ProbeDone /\ ppc' = "done") =>
        UNCHANGED <<moves, clicks, keys, scrolls, tinyMoves, lastPos, intervals, lastT>>

\* C9: the window timer removes the four listeners before any statistic is
\* computed; after the promise has settled none of the invocation's handlers
\* is registered, and later events change none of its counters or intervals.
C9_TeardownAtClose == []C9_State /\ [][C9_Step]_vars

\* A second invocation has settled after handling an event, and a further
\* event was dispatched after its window closed.
C9_Witness ==
    /\ ProbeDone /\ run = 2
    /\ lastT > 0 /\ now > lastT
    /\ listeners = {}

\* C20: in the four-signal probe the tiny-move counter is the number of
\* pointermoves of the window within 1px, in x and in y, of the pointer sample
\* before them, and that sample is the position of the last pointermove, from
\* the first one on.
C20_TinyMovesCounted ==
    (variant = "four" /\ ppc \in {"listening", "done"}) =>
        /\ tinyMoves = tinyExpected
        /\ moves > 0 => lastPos = prevSample

\* C21: a window of the four-signal probe with more than 20 pointermoves, every
\* one after the first within 1px of the sample before it, makes "excessive
\* jitter" suspicious.
C21_JitterRaised ==
    (ProbeDone /\ variant = "four" /\ moves > 20 /\ tinyExpected = moves - 1) =>
        Sig("probe-jitter").suspicious

\* The qualifying events counted by the current invocation.
Total == moves + clicks + keys + scrolls

\* While the window is open the four counters add up to the events dispatched
\* since the listeners were registered, and there is one interval fewer than
\* events, each the clock gap between two consecutive events.
C22_State ==
    ppc = "listening" =>
        /\ Total = dispatched
        /\ Len(intervals) = Max2(0, Total - 1)
        /\ \A i \in DOMAIN intervals :
              intervals[i] >= 0 /\ intervals[i] = evTimes[i + 1] - evTimes[i]

\* An event dispatched while the window is open raises exactly its own
\* class's counter by one and, unless it is the first, appends the clock time
\* elapsed since the event before it, whatever the classes of the two.
C22_Step ==
    (ppc = "listening" /\ dispatched' = dispatched + 1) =>
        /\ Total' = Total + 1
        /\ moves' >= moves /\ clicks' >= clicks /\ keys' >= keys /\ scrolls' >= scrolls
        /\ intervals' = IF Total = 0 THEN intervals ELSE Append(intervals, now' - now)

\* C22: at every point of the listening window moves+clicks+keys+scrolls is
\* the number of qualifying events dispatched since the listeners were
\* registered, and the interval sequence has max(0, total - 1) entries, the
\* i-th being the non-negative clock gap between the i-th and (i+1)-th events
\* irrespective of their class.
C22_Bookkeeping == []C22_State /\ [][C22_Step]_vars

\* The window is open after one event of each class, at three different gaps.
C22_Witness ==
    /\ ppc = "listening"
    /\ moves = 1 /\ clicks = 1 /\ keys = 1 /\ scrolls = 1
    /\ intervals = <<7, 20, 8>>

-----------------------------------------------------------------------------
(* Claims about the Scenario Harness (checked under SpecHarness)            *)

\* The steps logged for the current scenario from position i on.
StepsFrom(i) == SubSeq(steps, i, Len(steps))

IsPrefix(a, b) == Len(a) <= Len(b) /\ a = SubSeq(b, 1, Len(a))

\* C10: a throwing scripted action aborts nothing: the scenario still waits the
\* settle duration, extracts diagnostics and yields its report, the remaining
\* scenarios run, and with only action steps throwing the harness ends with
\* exactly NScenarios reports.
C10_ActionErrorsContained ==
    /\ fatal # "action"
    /\ \A i \in DOMAIN steps :
          steps[i] = "action!" =>
              \/ IsPrefix(StepsFrom(i + 1), <<"settle", "grab", "close", "report">>)
              \/ StepsFrom(i + 1) \in {<<"settle!">>, <<"settle", "grab", "close!">>}
    /\ \A i \in threw :
          (i < scen \/ hpc \in {"persist", "exit"}) =>
              /\ i <= Len(hresults)
              /\ hresults[i].scenario = ScenarioAt(first, i)
              /\ hresults[i].result.kind # "none"
    /\ (fatal = "none" /\ hpc \in {"persist", "exit"}) => Len(hresults) = NScenarios

\* The harness has ended, the scripted actions of at least two scenarios
\* threw, and it holds a report for each of them.
C10_Witness ==
    /\ hpc = "exit" /\ Cardinality(threw) >= 2
    /\ Len(hresults) = NScenarios
    /\ \A i \in threw : hresults[i].scenario = ScenarioAt(first, i)

\* The scenarios whose runScenario call has returned its report.
Reported == 1..Len(hresults)

\* C11: scenarios never interleave: at most one browser instance launched by
\* the harness is open at any moment, it is the current scenario's, and every
\* earlier scenario has extracted its diagnostics, closed its browser and
\* returned its report before the current one was launched.
C11_NoInterleaving ==
    /\ Cardinality(browsers) <= 1
    /\ browsers \subseteq {scen}
    /\ hpc = "launch" => browsers = {}
    /\ \A i \in 1..(scen - 1) :
          /\ i \notin browsers
          /\ i \in Reported
          /\ hresults[i].result.kind # "none"

\* The last scenario's browser is open while the reports of all earlier ones
\* are in place.
C11_Witness ==
    /\ scen = NScenarios /\ browsers = {scen}
    /\ Len(hresults) = NScenarios - 1
    /\ hpc = "grab"

\* The reports held are those of the scenarios run so far, one each, in the
\* configured order; the document is written at most once, and only with the
\* report of the last scenario in place; a run that ends normally has written it.
C12_State ==
    /\ Len(hresults) = (IF hpc \in {"persist", "exit"} THEN NScenarios ELSE scen - 1)
    /\ \A i \in Reported : hresults[i].scenario = ScenarioAt(first, i)
    /\ persisted \in {0, 1}
    /\ persisted = 1 <=> hpc = "exit"
    /\ persisted = 1 => Len(hresults) = NScenarios

\* A step appends at most one report and changes none already appended; the
\* harness moves to the next scenario only by appending the current one's
\* report; nothing is appended once the document is written.
C12_Step ==
    /\ IsPrefix(hresults, hresults')
    /\ Len(hresults') <= Len(hresults) + 1
    /\ scen' \in {scen, scen + 1}
    /\ scen' = scen + 1 => Len(hresults') = scen
    /\ persisted = 1 => hresults' = hresults /\ persisted' = 1

Grabbed == \E i \in DOMAIN steps : steps[i] \in {"grab", "grab!"}

\* The wait and the in-page evaluation of that call both completed.
GrabRan == Grabbed /\ grabbed.waitOk /\ grabbed.evalOk

\* C13: grabDiagnostics never raises: on every path it returns a value: a
\* failing wait or a failing evaluation gives the structured {error} object,
\* unparsable <pre> text the raw fallback, neither slot nor <pre> the empty
\* default; the harness never ends in it.
C13_GrabNeverRaises ==
    /\ fatal # "grab"
    /\ \A i \in DOMAIN steps : steps[i] # "grab!"
    /\ Grabbed =>
          /\ diag.kind \in {"slot", "parsed", "raw", "empty", "error"}
          /\ (~grabbed.waitOk \/ ~grabbed.evalOk) =>
                diag.kind = "error" /\ diag.fields = {"error"}
          /\ (GrabRan /\ ~grabbed.slot /\ grabbed.pre /\ ~grabbed.parses) =>
                diag.kind = "raw"
          /\ (GrabRan /\ ~grabbed.slot /\ ~grabbed.pre) => diag.kind = "empty"

\* The evaluation failed on a page that had published its slot, and the
\* scenario went on to close its browser with the {error} object in hand.
C13_Witness ==
    /\ Grabbed /\ grabbed.waitOk /\ ~grabbed.evalOk /\ grabbed.slot
    /\ diag.kind = "error"
    /\ hpc = "report"

\* C14: when the wait and the evaluation complete, the sources are taken in a
\* strict priority: the global slot whenever it is set, whatever the <pre>
\* holds; otherwise the <pre>, parsed, or raw when parsing fails; the empty
\* default only when there is neither.
C14_SlotThenPreThenEmpty ==
    GrabRan =>
        /\ diag.kind = "slot" <=> grabbed.slot
        /\ diag.kind = "parsed" <=> (~grabbed.slot /\ grabbed.pre /\ grabbed.parses)
        /\ diag.kind = "raw" <=> (~grabbed.slot /\ grabbed.pre /\ ~grabbed.parses)
        /\ diag.kind = "empty" <=> (~grabbed.slot /\ ~grabbed.pre)

\* The slot was set on a page that also had a parsable <pre>, and the slot's
\* value was returned.
C14_Witness ==
    /\ GrabRan /\ grabbed.slot /\ grabbed.pre /\ grabbed.parses
    /\ diag.kind = "slot" /\ diag.fields = slotFields

\* The steps of runScenario that bring the page up.
LaunchSteps == {"launch", "context", "page", "init", "goto"}

\* After such a step has failed in scenario `scen', the harness is stopped with
\* the reports of the scenarios before it and nothing written.
C17_State ==
    fatal \in LaunchSteps =>
        /\ hpc = "crashed"
        /\ Len(hresults) = scen - 1
        /\ persisted = 0

\* Once a step has failed fatally the harness takes no further step.
C17_Step == fatal # "none" => UNCHANGED harnessVars

\* C17: a scenario-launch failure is not isolated: when launch, context or
\* page creation, init-script injection or navigation fails in scenario k, the
\* scenarios after k are never run and no output document is written, so the
\* reports of the scenarios before k are lost.
C17_LaunchFailureEndsRun == []C17_State /\ [][C17_Step]_vars

\* Navigation failed in the last scenario, with the reports of all the
\* earlier ones collected and never written.
C17_Witness ==
    /\ fatal = "goto" /\ scen = NScenarios
    /\ Len(hresults) = NScenarios - 1 /\ persisted = 0
    /\ hpc = "crashed"

\* C18: every result stored in a ScenarioReport is a snapshot with exactly the
\* fields summary and signals, a raw fallback object or a structured {error};
\* the snapshot taken from the global slot has a signals field.
C18_ReportShapes ==
    \A i \in Reported :
        /\ hresults[i].result.fields \in {{"summary", "signals"}, {"raw"}, {"error"}}
        /\ hresults[i].result.kind = "slot" => "signals" \in hresults[i].result.fields

\* The step names, and a logged step without its failure mark.
StepNames ==
    {"launch", "context", "page", "init", "goto", "action", "settle", "grab",
     "close", "report"}
StepName(x) == IF x \in StepNames THEN x ELSE CHOOSE n \in StepNames : x = n \o "!"

\* The steps of a scenario of the given kind, in the order of the claim.
StepOrder(kind) ==
    <<"launch", "context", "page">>
        \o (IF kind = "init" THEN <<"init">> ELSE <<>>)
        \o <<"goto">>
        \o (IF kind = "actions" THEN <<"action">> ELSE <<>>)
        \o <<"settle", "grab", "close", "report">>

\* The scenario the logged steps belong to: the log is kept until the next
\* scenario's launch.
LoggedScenario == IF hpc = "launch" /\ steps # <<>> THEN scen - 1 ELSE scen

\* C27: within each scenario the steps occur in a fixed order: launch, the
\* pre-navigation script (when configured) strictly before navigation, then
\* the optional action, the full settle wait, diagnostics extraction, browser
\* close and the report; diagnostics are extracted only after the settle wait
\* and while the browser is open.
C27_StepOrder ==
    /\ IsPrefix([i \in DOMAIN steps |-> StepName(steps[i])],
                StepOrder(KindAt(first, LoggedScenario)))
    /\ \A i \in DOMAIN steps :
          steps[i] \notin StepNames => i = Len(steps) \/ steps[i] = "action!"
    /\ hpc = "grab" => scen \in browsers /\ steps[Len(steps)] = "settle"
    /\ hpc = "close" => scen \in browsers /\ steps[Len(steps)] = "grab"

\* A scenario with a pre-navigation script has run all its steps.
C27_Witness ==
    /\ KindAt(first, LoggedScenario) = "init"
    /\ steps = <<"launch", "context", "page", "init", "goto", "settle", "grab",
                 "close", "report">>
    /\ LoggedScenario \notin browsers

-----------------------------------------------------------------------------
(* Claims about the static detection pass (checked under SpecStatic)        *)

\* Sensor values that stand for a capability that is not there or a read
\* that throws.
Unavailable == {"absent", "undefined", "nullctx", "missing", "throws"}

\* C15: when the sensor value a detector of runStaticDetections reads is
\* unavailable or the read throws, the detector does not throw and its Signal
\* is suspicious.
C15_MissingSensorSuspicious ==
    \A c \in DOMAIN passes :
        (snap[faulted] \in Unavailable /\ readerOf(registry, faulted) # 0) =>
            /\ ~passes[c].threw
            /\ passes[c].signals[readerOf(registry, faulted)].suspicious

\* C16: two invocations of runStaticDetections against the same sensor values
\* return the same Signals, ids, flags and weights in the same order, whatever
\* the clock does during either.
C16_StaticPassDeterministic ==
    \A c, d \in DOMAIN passes : passes[c] = passes[d]

\* The Signal a completed pass holds for the detector that reads sensor k.
SignalFor(pass, k) == pass.signals[readerOf(registry, k)]

\* C23: on every mobile identity string, Android as well as iPhone/iPad, the
\* plugins Signal carries the reduced weight 0.5 and not the desktop 1.5.
C23_MobilePluginWeight ==
    \A c \in DOMAIN passes :
        (~passes[c].threw /\ isMobileUA(snap)) =>
            SignalFor(passes[c], "plugins").weight = 500

\* C24: the device-specs Signal is suspicious only when a low core count comes
\* with low memory; cores <= 1 with memory > 1, or memory <= 1 with cores > 1,
\* is not flagged.
C24_DeviceSpecsNeedsBoth ==
    \A c \in DOMAIN passes :
        (~passes[c].threw /\ SignalFor(passes[c], "cores").suspicious) =>
            snap.cores # "eight" /\ snap.memory # "eight"

\* C29: in both engine variants the webdriver Signal of a static pass is
\* suspicious exactly when the automation flag's value is true; a flag that is
\* there but false, or not there at all, gives suspicious = false.
C29_WebdriverIffTrue ==
    \A c \in DOMAIN passes :
        ~passes[c].threw =>
            (SignalFor(passes[c], "webdriver").suspicious <=> snap.webdriver = "true")

\* The Signals of a pass on the same platform class over the ordinary sensor
\* values.
OrdinaryPass == detectorList(registry, [Ordinary EXCEPT !["ua"] = snap.ua], 0)

\* C25: for a fixed platform class the weight of each Signal of the static
\* pass depends neither on what the detector found nor on whether its read
\* failed, so the sum of the weights is the same for every pass.
C25_WeightsFixed ==
    \A c \in DOMAIN passes :
        ~passes[c].threw =>
            /\ \A i \in DOMAIN passes[c].signals :
                  passes[c].signals[i].weight = OrdinaryPass[i].weight
            /\ maxOf(passes[c].signals) = maxOf(OrdinaryPass)

-----------------------------------------------------------------------------
(* Claims about the merged collection (checked under SpecMerge)             *)

\* A pass has run to its end and merged its Signals.
Merged == merged.ran /\ ~merged.threw

\* The number of Signals of the collection produced by group g.
CountFrom(sigs, g) == Cardinality({i \in DOMAIN sigs : sigs[i].from = g})

\* The collection holds one Signal for each detector that ran: every static
\* detector of the registry, every Signal of the probe when it ran, three
\* behavioural ones and, on the page, five micro ones.
OnePerDetector(sigs) ==
    /\ CountFrom(sigs, "static") = (IF registry = "four" THEN 19 ELSE 12)
    /\ CountFrom(sigs, "probe") \in {0, IF registry = "four" THEN 4 ELSE 2}
    /\ composer = "runAll" => CountFrom(sigs, "probe") # 0
    /\ CountFrom(sigs, "behavioural") = 3
    /\ CountFrom(sigs, "micro") = (IF composer = "page" THEN 5 ELSE 0)

DistinctIds(sigs) ==
    \A i, j \in DOMAIN sigs : i # j => sigs[i].id # sigs[j].id

\* The groups of the collection follow one another as in `order', a sequence
\* of sets of groups.
InGroupOrder(sigs, order) ==
    LET rank(g) == CHOOSE k \in DOMAIN order : g \in order[k]
    IN  \A i, j \in DOMAIN sigs : i < j => rank(sigs[i].from) <= rank(sigs[j].from)

\* C26 as stated: the merged collection of a pass holds one Signal per
\* detector, static Signals first, then the probe's, then the behavioural
\* ones, in every pass, and its ids are pairwise distinct whichever branch
\* each detector took.
C26_MergedOrder ==
    Merged =>
        /\ OnePerDetector(merged.signals)
        /\ DistinctIds(merged.signals)
        /\ InGroupOrder(merged.signals,
                        <<{"static"}, {"probe"}, {"behavioural", "micro"}>>)

\* C26 as amended: one Signal per detector and pairwise distinct ids in every
\* pass, in an order that is fixed for each composer: static, probe,
\* behavioural in runAllDetections; static, behavioural, micro, probe on the
\* page.
C26_MergedOrderPerComposer ==
    Merged =>
        /\ OnePerDetector(merged.signals)
        /\ DistinctIds(merged.signals)
        /\ InGroupOrder(merged.signals,
                        IF composer = "runAll"
                        THEN <<{"static"}, {"probe"}, {"behavioural"}>>
                        ELSE <<{"static"}, {"behavioural"}, {"micro"}, {"probe"}>>)

\* A pass of the 19-detector engine whose canvas detector took its
\* null-context branch, merged with the probe's and the behavioural Signals.
C26_Witness ==
    /\ Merged /\ composer = "runAll" /\ registry = "four"
    /\ snap.canvas = "nullctx"
    /\ Len(merged.signals) = 26
    /\ merged.signals[17].id = "canvas"
    /\ merged.signals[26].from = "behavioural"

-----------------------------------------------------------------------------
(* Claims about the snapshot's JSON form (checked under SpecJson)           *)

\* The value v carries the score, max and level of snapshot w and, Signal by
\* Signal in the same order, its ids, suspicious flags and weights.
SameDiagnostics(v, w) ==
    /\ v.summary.present = w.summary.present
    /\ w.summary.present =>
          /\ v.summary.score = w.summary.score
          /\ v.summary.max = w.summary.max
          /\ v.summary.level = w.summary.level
    /\ Len(v.signals) = Len(w.signals)
    /\ \A i \in DOMAIN w.signals :
          /\ v.signals[i].id = w.signals[i].id
          /\ v.signals[i].suspicious = w.signals[i].suspicious
          /\ v.signals[i].weight = w.signals[i].weight

levelOfReported(sm) ==
    IF sm.engine = "ratio" THEN ratioLevel(sm.score, sm.max) ELSE rawLevel(sm.score)

\* C30: the level of a Summary is the classification of the score and max the
\* same Summary reports (both rounded to one decimal), for every Signal
\* collection with non-negative weights and either engine variant.
C30_LevelFromReported ==
    Summarized => summary.level = levelOfReported(summary)

\* runScenario is not in progress: it has not been called yet for the next
\* scenario, or it has returned its report, or it has rejected.
ScenarioSettled == hpc \in {"launch", "report", "persist", "exit", "crashed"}

\* C34: whenever runScenario has settled, with a report or with a rejection
\* (of context creation, init-script injection, navigation, ...), every browser
\* instance it launched is closed: no instance outlives its scenario.
C34_BrowserClosedOnSettle ==
    ScenarioSettled => browsers = {}

-----------------------------------------------------------------------------
(* Claims about runAllDetections on the window (checked under SpecWindow)   *)

\* The last call of runAllDetections has resolved and none is in progress.
Resolved == wpc = "settled" /\ returned.ran /\ ~returned.threw

\* C32: when the promise of runAllDetections has resolved, the window has as
\* many listeners (pointermove, click, keydown, scroll, blur, resize,
\* gesturestart) as it had when the call began, so that repeated calls do not
\* accumulate handlers.
C32_ListenersRestored ==
    Resolved => Cardinality(windowListeners) = listenersBefore

IsBehavioural(s) == s.from = "behavioural"

\* C33: in the two-signal engine the focus-blur, resize and touch-gestures
\* Signals that runAllDetections resolves with are all there and all
\* suspicious = false, whatever blur, resize or gesturestart events the host
\* dispatched before, during or after the pass.
C33_TwoSignalNeverFlags ==
    (registry = "two" /\ returned.ran /\ ~returned.threw) =>
        LET b == SelectSeq(returned.signals, IsBehavioural)
        IN  /\ [i \in 1..Len(b) |-> b[i].id] = <<"focus-blur", "resize", "touch-gestures">>
            /\ \A i \in 1..Len(b) : ~b[i].suspicious

\* A second call of the two-signal engine has resolved; the listeners of the
\* first call ran on a blur and those of the second on a resize.
C33_Witness ==
    /\ registry = "two" /\ Resolved /\ invocation = 2
    /\ closures[1]["blur"] /\ closures[2]["resize"]

-----------------------------------------------------------------------------
(* Specifications                                                           *)

InitSum == SumInit /\ ProbeIdle /\ HarnessIdle /\ StaticIdle /\ JsonIdle /\ MergeIdle /\ PageIdle /\ WindowIdle

SpecSum == InitSum /\ [][SumNext]_vars

Init == SumInit /\ ProbeInit("free") /\ HarnessIdle /\ StaticIdle /\ JsonIdle /\ MergeIdle /\ PageIdle /\ WindowIdle

Spec == Init /\ [][ProbeNext]_vars

InitRamp == SumInit /\ ProbeInit("ramp") /\ HarnessIdle /\ StaticIdle /\ JsonIdle /\ MergeIdle /\ PageIdle /\ WindowIdle

InitRepeat == SumInit /\ ProbeInit("repeat") /\ HarnessIdle /\ StaticIdle /\ JsonIdle /\ MergeIdle /\ PageIdle /\ WindowIdle

InitHarness == SumInit /\ ProbeIdle /\ HarnessInit /\ StaticIdle /\ JsonIdle /\ MergeIdle /\ PageIdle /\ WindowIdle

SpecHarness == InitHarness /\ [][HarnessNext]_vars

SpecRepeat == InitRepeat /\ [][ProbeNext]_vars

SpecRamp == InitRamp /\ [][RampNext]_vars

InitPointer == SumInit /\ ProbeInit("pointer") /\ HarnessIdle /\ StaticIdle /\ JsonIdle /\ MergeIdle /\ PageIdle /\ WindowIdle

SpecPointer == InitPointer /\ [][PointerNext]_vars

InitStatic == SumInit /\ ProbeIdle /\ HarnessIdle /\ StaticInit /\ JsonIdle /\ MergeIdle /\ PageIdle /\ WindowIdle

SpecStatic == InitStatic /\ [][StaticNext]_vars

SpecJson == InitSum /\ [][JsonNext]_vars

SpecPage == InitSum /\ [][PageNext]_vars

InitMerge == SumInit /\ ProbeIdle /\ HarnessIdle /\ StaticInit /\ JsonIdle /\ MergeInit /\ PageIdle /\ WindowIdle

SpecMerge == InitMerge /\ [][MergeNext]_vars

InitWindow == SumInit /\ ProbeIdle /\ HarnessIdle /\ WindowStatic /\ JsonIdle /\ MergeIdle /\ PageIdle /\ WindowIdle

SpecWindow == InitWindow /\ [][WindowNext]_vars

====
